---- MODULE Spec2Model ----
(***************************************************************************)
(* Model of the RAG pipeline of ViktorUJ/ai-practitioner:                  *)
(*   search_server.py  the /ask handler with its Redis answer cache        *)
(*   load_json.py      the incremental ingestion into ChromaDB             *)
(* Strings whose characters matter (cache keys, answer texts) are          *)
(* sequences of one-character strings.                                     *)
(***************************************************************************)
EXTENDS Integers, Sequences, FiniteSets, TLC

(* ------------------------------ bounds --------------------------------- *)
\* number of /ask requests that arrive (each may overlap the others)
MaxRequests == 2
\* the smaller of the two amounts by which the clock advances
TickStep == 15
\* number of revisions the upstream corpus goes through
MaxRevisions == 2
\* number of ingestion runs
MaxRuns == 3
\* what get_max_batch_size() of the store answers
MaxBatch == 1
\* the chunker on its own: token counts, chunk sizes and overlaps tried
MaxTokens == 9
MaxChunkSize == 4
MaxOverlap == 5

(* --------------------------- search_server.py -------------------------- *)
CACHE_TTL == 30

FULL == <<"f", "u", "l", "l">>
ANSWER_ONLY == <<"a", "n", "s", "w", "e", "r", "_", "o", "n", "l", "y">>

\* the AskRequest bodies the clients send: a plain question in both response
\* modes, a blank query, another top_k, and two bodies with the separator
\* inside the query and inside the model id
AskRequests ==
    { [query |-> <<"q">>, top_k |-> 1, model_id |-> <<"m">>,
       response_type |-> FULL],
      [query |-> <<"q">>, top_k |-> 1, model_id |-> <<"m">>,
       response_type |-> ANSWER_ONLY],
      [query |-> <<" ">>, top_k |-> 1, model_id |-> <<"m">>,
       response_type |-> FULL],
      [query |-> <<"q">>, top_k |-> 10, model_id |-> <<"m">>,
       response_type |-> FULL],
      [query |-> <<"q", "|", "1", "|", "m">>, top_k |-> 1,
       model_id |-> <<"m">>, response_type |-> FULL],
      [query |-> <<"q">>, top_k |-> 1,
       model_id |-> <<"m", "|", "1", "|", "m">>, response_type |-> FULL] }

Whitespace == {" ", "\n"}

RECURSIVE LStrip(_)
LStrip(s) ==
    IF s # <<>> /\ Head(s) \in Whitespace THEN LStrip(Tail(s)) ELSE s

RECURSIVE RStrip(_)
RStrip(s) ==
    IF s # <<>> /\ s[Len(s)] \in Whitespace
    THEN RStrip(SubSeq(s, 1, Len(s) - 1))
    ELSE s

\* str.strip()
Strip(s) == RStrip(LStrip(s))

Digit(d) == <<"0", "1", "2", "3", "4", "5", "6", "7", "8", "9">>[d + 1]

\* str(n) of a non-negative integer inside an f-string
RECURSIVE IntToStr(_)
IntToStr(n) ==
    IF n < 10 THEN <<Digit(n)>> ELSE IntToStr(n \div 10) \o <<Digit(n % 10)>>

\* f"ask:{req.query}|{req.top_k}|{req.model_id}|{req.response_type}"
CacheKey(query, top_k, model_id, response_type) ==
    <<"a", "s", "k", ":">> \o query \o <<"|">> \o IntToStr(top_k)
        \o <<"|">> \o model_id \o <<"|">> \o response_type

\* The bytes stored in Redis or sent as a body: either text that is not a
\* JSON document (kind "plain") or the JSON document of an object with the
\* fields answer, sources, cached (kind "json").
PlainText(t) ==
    [kind |-> "plain", text |-> t, answer |-> <<>>, sources |-> <<>>,
     cached |-> FALSE]

\* json.dumps(out, ensure_ascii=False) of {'answer', 'sources', 'cached'}
JsonDumps(out) ==
    [kind |-> "json", text |-> <<>>, answer |-> out.answer,
     sources |-> out.sources, cached |-> out.cached]

\* json.loads(text) succeeds only on a JSON document
JsonLoadsOk(v) == v.kind = "json"
JsonLoads(v) == [answer |-> v.answer, sources |-> v.sources, cached |-> v.cached]

\* 'No docs found.' and 'No docs found.\n\n'
NO_DOCS == <<"N", "o", " ", "d", "o", "c", "s", " ", "f", "o", "u", "n", "d", ".">>
NO_DOCS_TEXT == NO_DOCS \o <<"\n", "\n">>

Min(a, b) == IF a < b THEN a ELSE b

\* what collection.query(n_results=top_k) can return, chunk text and
\* metadata per hit: nothing, or the nearest top_k of the two chunks indexed
Chunk1 == [chunk |-> "t1", metadata |-> "m1"]
Chunk2 == [chunk |-> "t2", metadata |-> "m2"]
SearchResults(top_k) ==
    { <<>>, SubSeq(<<Chunk1, Chunk2>>, 1, Min(top_k, 2)) }

\* what bedrock.invoke_model can return as the parsed body
GenTexts == { <<"A">>, <<"B", " ">> }
BedrockBodies ==
    [shape : {"message", "completion"}, text : GenTexts]
        \cup { [shape |-> "other", text |-> <<>>],
               [shape |-> "malformed", text |-> <<>>] }

\* lines 198-202: extraction of the answer from the two response shapes
ExtractAnswer(body) ==
    CASE body.shape = "message" -> Strip(body.text)
      [] body.shape = "completion" -> Strip(body.text)
      [] OTHER -> <<>>

NoResp ==
    [status |-> 0, kind |-> "none", text |-> <<>>, answer |-> <<>>,
     sources |-> <<>>, cached |-> FALSE]
PlainTextResponse(t) ==
    [status |-> 200, kind |-> "plain", text |-> t, answer |-> <<>>,
     sources |-> <<>>, cached |-> FALSE]
JsonResponse(data) ==
    [status |-> 200, kind |-> "json", text |-> <<>>, answer |-> data.answer,
     sources |-> data.sources, cached |-> data.cached]
HTTPException(code) ==
    [status |-> code, kind |-> "error", text |-> <<>>, answer |-> <<>>,
     sources |-> <<>>, cached |-> FALSE]

Requests == 1..MaxRequests

IdleRequest ==
    [pc |-> "idle", query |-> <<>>, top_k |-> 0, model_id |-> <<>>,
     response_type |-> <<>>, cache_key |-> <<>>, results |-> <<>>,
     answer |-> <<>>, resp |-> NoResp,
     seen |-> "none", hitBy |-> 0, searches |-> 0, genCalls |-> 0,
     wrote |-> <<>>, failKind |-> "none"]

VARIABLES
    cache,      \* Redis: cache key -> [val, ttl, by]; ttl = 0 is an expired
                \* entry, by is the request that wrote it
    req         \* the /ask requests: position, parameters, locals and what
                \* each has done so far (seen, hitBy, searches, genCalls,
                \* wrote, failKind)

VARIABLES
    upstream,             \* the corpus repository: its revisions, oldest
                          \* first, each a tree path -> blob; the commit id
                          \* of revision i is i
    local,                \* the revision checked out in ./collection, 0
                          \* before the clone
    commit_collection,    \* ChromaDB collections, records in insertion order
    filehash_collection,
    chunk_collection,
    run,                  \* the ingestion run: position and locals
    audit,                \* history kept for the properties
    chunker               \* lines 153-155 applied to one configuration

askVars == <<cache, req>>
ingestVars == <<upstream, local, commit_collection, filehash_collection,
                chunk_collection, run, audit>>
vars == <<cache, req, upstream, local, commit_collection,
          filehash_collection, chunk_collection, run, audit, chunker>>

\* what a lookup finds under the key
Lookup(key) ==
    IF key \notin DOMAIN cache THEN "absent"
    ELSE IF cache[key].ttl = 0 THEN "expired" ELSE "live"

\* redis_client.get: None (falsy) unless the entry is within its TTL
RedisGet(key) ==
    IF Lookup(key) = "live" THEN cache[key].val ELSE PlainText(<<>>)

\* `if cached:` is the truth value of the bytes read
Truthy(v) == v.kind = "json" \/ v.text # <<>>

\* redis_client.setex(key, ttl, value)
Setex(key, ttl, v, r) ==
    [k \in DOMAIN cache \cup {key} |->
        IF k = key THEN [val |-> v, ttl |-> ttl, by |-> r] ELSE cache[k]]

InitAsk ==
    /\ cache = <<>>
    /\ req = [r \in Requests |-> IdleRequest]

\* a request arrives; line 153 builds its cache key
Arrive(r) ==
    /\ req[r].pc = "idle"
    /\ \A o \in Requests : o < r => req[o].pc # "idle"
    /\ \E b \in AskRequests :
          req' = [req EXCEPT ![r].pc = "check_cache",
                             ![r].query = b.query, ![r].top_k = b.top_k,
                             ![r].model_id = b.model_id,
                             ![r].response_type = b.response_type,
                             ![r].cache_key =
                                 CacheKey(b.query, b.top_k, b.model_id,
                                          b.response_type)]
    /\ UNCHANGED cache

\* lines 154-164: the cache lookup and the replay of a hit
CheckCache(r) ==
    /\ req[r].pc = "check_cache"
    /\ LET key == req[r].cache_key
           cached == RedisGet(key)
           by == IF Lookup(key) = "live" THEN cache[key].by ELSE 0
       IN
         IF Truthy(cached)
         THEN IF req[r].response_type = ANSWER_ONLY
              THEN req' = [req EXCEPT ![r].pc = "done",
                              ![r].seen = Lookup(key), ![r].hitBy = by,
                              ![r].resp = PlainTextResponse(cached.text)]
              ELSE IF JsonLoadsOk(cached)
              THEN req' = [req EXCEPT ![r].pc = "done",
                              ![r].seen = Lookup(key), ![r].hitBy = by,
                              ![r].resp = JsonResponse(
                                  [JsonLoads(cached) EXCEPT !.cached = TRUE])]
              ELSE req' = [req EXCEPT ![r].pc = "failed",
                              ![r].seen = Lookup(key), ![r].hitBy = by,
                              ![r].failKind = "decode",
                              ![r].resp = HTTPException(500)]
         ELSE req' = [req EXCEPT ![r].pc = "search",
                                 ![r].seen = Lookup(key)]
    /\ UNCHANGED cache

\* Search with the slip of treating "nothing found" as an error
SearchEmptyFails(r) ==
    /\ req[r].pc = "search"
    /\ IF Strip(req[r].query) = <<>>
       THEN req' = [req EXCEPT ![r].pc = "failed",
                               ![r].failKind = "client",
                               ![r].resp = HTTPException(400)]
       ELSE \/ req' = [req EXCEPT ![r].pc = "failed",
                                  ![r].searches = @ + 1,
                                  ![r].failKind = "retrieval",
                                  ![r].resp = HTTPException(500)]
            \/ \E res \in SearchResults(req[r].top_k) :
                  IF res = <<>>
                  THEN req' = [req EXCEPT ![r].pc = "failed",
                                          ![r].searches = @ + 1,
                                          ![r].failKind = "empty",
                                          ![r].resp = HTTPException(404)]
                  ELSE req' = [req EXCEPT ![r].searches = @ + 1,
                                          ![r].results = res,
                                          ![r].pc = "generate"]
    /\ UNCHANGED cache

\* lines 166-167 with search(), lines 128-144
Search(r) ==
    /\ req[r].pc = "search"
    /\ IF Strip(req[r].query) = <<>>
       THEN req' = [req EXCEPT ![r].pc = "failed",
                               ![r].failKind = "client",
                               ![r].resp = HTTPException(400)]
       ELSE \/ req' = [req EXCEPT ![r].pc = "failed",
                                  ![r].searches = @ + 1,
                                  ![r].failKind = "retrieval",
                                  ![r].resp = HTTPException(500)]
            \/ \E res \in SearchResults(req[r].top_k) :
                  req' = [req EXCEPT ![r].searches = @ + 1,
                                     ![r].results = res,
                                     ![r].pc = IF res = <<>>
                                               THEN "write_canned"
                                               ELSE "generate"]
    /\ UNCHANGED cache

\* WriteCanned with the slip of returning the canned answer uncached
WriteCannedUncached(r) ==
    /\ req[r].pc = "write_canned"
    /\ req' = [req EXCEPT
          ![r].pc = "done",
          ![r].resp = IF req[r].response_type = ANSWER_ONLY
                      THEN PlainTextResponse(NO_DOCS_TEXT)
                      ELSE JsonResponse([answer |-> NO_DOCS,
                                         sources |-> <<>>,
                                         cached |-> FALSE])]
    /\ UNCHANGED cache

\* lines 168-172: the canned answer
WriteCanned(r) ==
    /\ req[r].pc = "write_canned"
    /\ LET text == NO_DOCS_TEXT IN
         /\ cache' = Setex(req[r].cache_key, CACHE_TTL, PlainText(text), r)
         /\ req' = [req EXCEPT
               ![r].pc = "done",
               ![r].wrote = Append(@, [key |-> req[r].cache_key,
                                       ttl |-> CACHE_TTL,
                                       val |-> PlainText(text)]),
               ![r].resp = IF req[r].response_type = ANSWER_ONLY
                           THEN PlainTextResponse(text)
                           ELSE JsonResponse([answer |-> NO_DOCS,
                                              sources |-> <<>>,
                                              cached |-> FALSE])]

\* [c.metadata for c in search_resp.results]
Sources(results) == [i \in 1..Len(results) |-> results[i].metadata]

\* Generate with the slip of caching an error text when Bedrock fails
GenerateCachingFailure(r) ==
    /\ req[r].pc = "generate"
    /\ \/ /\ req' = [req EXCEPT
                ![r].pc = "failed", ![r].genCalls = @ + 1,
                ![r].failKind = "generation",
                ![r].wrote = Append(@, [key |-> req[r].cache_key,
                                        ttl |-> CACHE_TTL,
                                        val |-> PlainText(<<"E">>)]),
                ![r].resp = HTTPException(500)]
          /\ cache' = Setex(req[r].cache_key, CACHE_TTL,
                            PlainText(<<"E">>), r)
       \/ /\ \E body \in BedrockBodies :
               IF body.shape = "malformed"
               THEN req' = [req EXCEPT ![r].pc = "failed",
                                       ![r].genCalls = @ + 1,
                                       ![r].failKind = "generation_body",
                                       ![r].resp = HTTPException(500)]
               ELSE req' = [req EXCEPT ![r].pc = "write_cache",
                                       ![r].genCalls = @ + 1,
                                       ![r].answer = ExtractAnswer(body)]
          /\ UNCHANGED cache

\* lines 175-202: context, the Bedrock call and the answer extraction
Generate(r) ==
    /\ req[r].pc = "generate"
    /\ \/ req' = [req EXCEPT ![r].pc = "failed", ![r].genCalls = @ + 1,
                             ![r].failKind = "generation",
                             ![r].resp = HTTPException(500)]
       \/ \E body \in BedrockBodies :
             IF body.shape = "malformed"
             THEN req' = [req EXCEPT ![r].pc = "failed",
                                     ![r].genCalls = @ + 1,
                                     ![r].failKind = "generation_body",
                                     ![r].resp = HTTPException(500)]
             ELSE req' = [req EXCEPT ![r].pc = "write_cache",
                                     ![r].genCalls = @ + 1,
                                     ![r].answer = ExtractAnswer(body)]
    /\ UNCHANGED cache

\* WriteCache with the slip of SET NX for SETEX: a live entry is kept
WriteCacheIfAbsent(r) ==
    /\ req[r].pc = "write_cache"
    /\ LET out == [answer |-> req[r].answer,
                   sources |-> Sources(req[r].results),
                   cached |-> FALSE]
           v == IF req[r].response_type = ANSWER_ONLY
                THEN PlainText(req[r].answer \o <<"\n", "\n">>)
                ELSE JsonDumps(out)
       IN /\ cache' = IF Lookup(req[r].cache_key) = "live"
                      THEN cache
                      ELSE Setex(req[r].cache_key, CACHE_TTL, v, r)
          /\ req' = [req EXCEPT
                ![r].pc = "done",
                ![r].wrote = Append(@, [key |-> req[r].cache_key,
                                        ttl |-> CACHE_TTL, val |-> v]),
                ![r].resp = IF req[r].response_type = ANSWER_ONLY
                            THEN PlainTextResponse(v.text)
                            ELSE JsonResponse(out)]

\* lines 205-212: cache the answer in the requested representation
WriteCache(r) ==
    /\ req[r].pc = "write_cache"
    /\ IF req[r].response_type = ANSWER_ONLY
       THEN LET text == req[r].answer \o <<"\n", "\n">> IN
            /\ cache' = Setex(req[r].cache_key, CACHE_TTL, PlainText(text), r)
            /\ req' = [req EXCEPT
                  ![r].pc = "done",
                  ![r].wrote = Append(@, [key |-> req[r].cache_key,
                                          ttl |-> CACHE_TTL,
                                          val |-> PlainText(text)]),
                  ![r].resp = PlainTextResponse(text)]
       ELSE LET out == [answer |-> req[r].answer,
                        sources |-> Sources(req[r].results),
                        cached |-> FALSE] IN
            /\ cache' = Setex(req[r].cache_key, CACHE_TTL, JsonDumps(out), r)
            /\ req' = [req EXCEPT
                  ![r].pc = "done",
                  ![r].wrote = Append(@, [key |-> req[r].cache_key,
                                          ttl |-> CACHE_TTL,
                                          val |-> JsonDumps(out)]),
                  ![r].resp = JsonResponse(out)]

\* Redis expiry: d seconds pass; an entry whose time is up stays behind as
\* expired until it is overwritten
Tick ==
    /\ \E k \in DOMAIN cache : cache[k].ttl > 0
    /\ \E d \in {TickStep, CACHE_TTL} :
          cache' = [k \in DOMAIN cache |->
                       [cache[k] EXCEPT !.ttl = IF @ > d THEN @ - d ELSE 0]]
    /\ UNCHANGED req

NextAsk ==
    \/ \E r \in Requests : Arrive(r) /\ UNCHANGED <<ingestVars, chunker>>
    \/ \E r \in Requests : CheckCache(r) /\ UNCHANGED <<ingestVars, chunker>>
    \/ \E r \in Requests : Search(r) /\ UNCHANGED <<ingestVars, chunker>>
    \/ \E r \in Requests : WriteCanned(r) /\ UNCHANGED <<ingestVars, chunker>>
    \/ \E r \in Requests : Generate(r) /\ UNCHANGED <<ingestVars, chunker>>
    \/ \E r \in Requests : WriteCache(r) /\ UNCHANGED <<ingestVars, chunker>>
    \/ Tick /\ UNCHANGED <<ingestVars, chunker>>

(* ------------------------------ load_json.py --------------------------- *)
CHUNK_SIZE == 800
CHUNK_OVERLAP == 100

\* paths of the corpus repository, in the order git and os.walk list them
PathSeq == << "objects/1.json", "objects/2.json", "objects/3.JSON",
             "package.json" >>
Paths == {PathSeq[i] : i \in 1..Len(PathSeq)}

\* the directory a path lies in and the extension it ends with
PathDir(p) ==
    CASE p = "objects/1.json" -> "objects"
      [] p = "objects/2.json" -> "objects"
      [] p = "objects/3.JSON" -> "objects"
      [] p = "package.json" -> "."
PathExt(p) ==
    CASE p = "objects/1.json" -> <<".", "j", "s", "o", "n">>
      [] p = "objects/2.json" -> <<".", "j", "s", "o", "n">>
      [] p = "objects/3.JSON" -> <<".", "J", "S", "O", "N">>
      [] p = "package.json" -> <<".", "j", "s", "o", "n">>

DOT_JSON == <<".", "j", "s", "o", "n">>

\* str.lower() on the characters of an extension
LowerChar(c) ==
    CASE c = "J" -> "j" [] c = "S" -> "s" [] c = "O" -> "o" [] c = "N" -> "n"
      [] OTHER -> c
Lower(s) == [i \in 1..Len(s) |-> LowerChar(s[i])]

\* f.endswith('.json') of line 81 and f.lower().endswith('.json') of line 199
EndsWithJson(p) == PathExt(p) = DOT_JSON
LowerEndsWithJson(p) == Lower(PathExt(p)) = DOT_JSON

\* File contents.  bytes names the byte string; kind is what reading and
\* json.load make of it; id is the 'id' field ("" when there is none); text
\* names the text assembled from the seven fields and ntok its token count.
Absent == [bytes |-> "", kind |-> "absent", id |-> "", text |-> "", ntok |-> 0]
LongDoc ==
    [bytes |-> "b1", kind |-> "object", id |-> "", text |-> "T1", ntok |-> 900]
ShortDoc ==
    [bytes |-> "b2", kind |-> "object", id |-> "", text |-> "T2", ntok |-> 5]
IdDoc ==
    [bytes |-> "b3", kind |-> "object", id |-> "d7", text |-> "T3", ntok |-> 5]
NoTextDoc ==
    [bytes |-> "b4", kind |-> "object", id |-> "", text |-> "", ntok |-> 0]
InvalidJson ==
    [bytes |-> "b5", kind |-> "invalid", id |-> "", text |-> "", ntok |-> 0]
ArrayJson ==
    [bytes |-> "b6", kind |-> "array", id |-> "", text |-> "", ntok |-> 0]
Unreadable ==
    [bytes |-> "b7", kind |-> "unreadable", id |-> "", text |-> "", ntok |-> 0]
EdgeDoc ==
    [bytes |-> "b8", kind |-> "object", id |-> "", text |-> "T8", ntok |-> 750]
Blobs == {LongDoc, ShortDoc, IdDoc, NoTextDoc, InvalidJson, ArrayJson,
          Unreadable, EdgeDoc}

\* the corpus at its first revision
Tree0 ==
    [p \in Paths |->
        CASE p = "objects/1.json" -> LongDoc
          [] p = "objects/2.json" -> ShortDoc
          [] p = "objects/3.JSON" -> Absent
          [] p = "package.json" -> NoTextDoc]

\* hashlib.sha256 over the bytes: distinct bytes, distinct digests
Sha256(bytes) == <<"sha256", bytes>>

\* embedder.encode(text).tolist()
Embed(text) == <<"emb", text>>

\* hash_file raises on a file that cannot be opened
HashFileOk(blob) == blob.kind \notin {"unreadable", "absent"}
hash_file(blob) == Sha256(blob.bytes)

\* list(range(start, stop, step)) for step # 0
RECURSIVE PyRange(_, _, _)
PyRange(start, stop, step) ==
    IF (step > 0 /\ start < stop) \/ (step < 0 /\ start > stop)
    THEN <<start>> \o PyRange(start + step, stop, step)
    ELSE <<>>

\* lines 154-155: the token windows tokens[i:i+size], as [lo, hi)
ChunkWindows(ntok, size, overlap) ==
    LET starts == PyRange(0, ntok, size - overlap) IN
    [k \in 1..Len(starts) |->
        [lo |-> starts[k], hi |-> Min(starts[k] + size, ntok)]]

\* encoding.decode(tokens[lo:hi]) of the text named text
ChunkText(text, w) == [text |-> text, lo |-> w.lo, hi |-> w.hi]

\* f"{doc['id']}_chunk_{idx}"
ChunkId(doc_id, idx) == [doc |-> doc_id, idx |-> idx]

\* ids of the records of a collection, in the order get() lists them
Ids(coll) == [i \in 1..Len(coll) |-> coll[i].id]
IdSet(coll) == {coll[i].id : i \in 1..Len(coll)}

\* collection.add(ids, embeddings, documents, metadatas) of the ChromaDB
\* versions that have DEFAULT_TENANT (line 40): a record whose id is already
\* in the collection is skipped, the stored one is kept
Add(coll, recs) ==
    LET Fresh(rec) == rec.id \notin IdSet(coll) IN
    coll \o SelectSeq(recs, Fresh)

\* git diff --diff-filter=AM --name-only last current, lines 75-81
get_changed_files(last, current) ==
    LET Changed(p) ==
          /\ upstream[current][p] # Absent
          /\ upstream[last][p] # upstream[current][p]
          /\ EndsWithJson(p)
    IN SelectSeq(PathSeq, Changed)

\* lines 196-200: the walk over ./collection/objects
WalkJson(rev) ==
    LET Listed(p) ==
          /\ upstream[rev][p] # Absent
          /\ PathDir(p) = "objects"
          /\ LowerEndsWithJson(p)
    IN SelectSeq(PathSeq, Listed)

\* lines 107-116: the hash records collected for the changed paths
RECURSIVE HashRecords(_, _)
HashRecords(tree, changed) ==
    IF changed = <<>> THEN <<>>
    ELSE LET rel == Head(changed)
             rest == HashRecords(tree, Tail(changed))
         IN IF HashFileOk(tree[rel])
            THEN << [id |-> rel,
                     embedding |-> Embed(hash_file(tree[rel])),
                     document |-> hash_file(tree[rel]),
                     metadata |-> [hash |-> hash_file(tree[rel])]] >> \o rest
            ELSE rest

\* DocsToEmbed with the slip of `break` for `continue`: the pass stops at
\* the first document that cannot be read or decoded
RECURSIVE DocsToEmbedStopAtBad(_, _)
DocsToEmbedStopAtBad(tree, changed) ==
    IF changed = <<>> THEN <<>>
    ELSE LET rel == Head(changed)
             data == tree[rel]
         IN IF ~HashFileOk(data) \/ data.kind # "object"
            THEN <<>>
            ELSE IF data.text # ""
            THEN << [id |-> IF data.id # "" THEN data.id ELSE rel,
                     text |-> data.text, ntok |-> data.ntok] >>
                    \o DocsToEmbedStopAtBad(tree, Tail(changed))
            ELSE DocsToEmbedStopAtBad(tree, Tail(changed))

\* lines 118-134: the documents whose text is to be chunked
RECURSIVE DocsToEmbed(_, _)
DocsToEmbed(tree, changed) ==
    IF changed = <<>> THEN <<>>
    ELSE LET rel == Head(changed)
             data == tree[rel]
             rest == DocsToEmbed(tree, Tail(changed))
         IN IF HashFileOk(data) /\ data.kind = "object" /\ data.text # ""
            THEN << [id |-> IF data.id # "" THEN data.id ELSE rel,
                     text |-> data.text, ntok |-> data.ntok] >> \o rest
            ELSE rest

\* lines 156-161: the records written for one document
ChunkRecords(doc) ==
    LET ws == ChunkWindows(doc.ntok, CHUNK_SIZE, CHUNK_OVERLAP) IN
    [k \in 1..Len(ws) |->
        [id |-> ChunkId(doc.id, k - 1),
         embedding |-> Embed(ChunkText(doc.text, ws[k])),
         document |-> ChunkText(doc.text, ws[k]),
         metadata |-> [source_id |-> doc.id, chunk_index |-> k - 1]]]

IdleRun ==
    [pc |-> "idle", n |-> 0, curr |-> 0, last |-> 0, prev |-> 0,
     prevPc |-> "idle", changed |-> <<>>, fh |-> <<>>, start |-> 0, docs |-> <<>>, di |-> 0,
     processed |-> 0, adds |-> 0,
     calls |-> <<>>, abortedAt |-> "", prevAbortedAt |-> ""]

\* one call of collection.add as the run has issued it: the collection, the
\* ids passed and, for a chunk write, the document and its token count
AddCall(coll, recs, doc_id, ntok) ==
    [coll |-> coll, ids |-> Ids(recs), doc |-> doc_id, ntok |-> ntok]

\* audit: the marker most recently added to commit_collection, the digest
\* computed the last time each path was processed, the text produced the
\* last time each chunk id was produced, whether a run has been aborted,
\* the revisions whose run went through to the end
InitIngest ==
    /\ upstream = <<Tree0>>
    /\ local = 0
    /\ commit_collection = <<>>
    /\ filehash_collection = <<>>
    /\ chunk_collection = <<>>
    /\ run = IdleRun
    /\ audit = [marker |-> 0, digest |-> <<>>, chunk |-> <<>>,
                aborted |-> FALSE, ingested |-> {}]

RunEnded == run.pc \in {"idle", "noop", "done", "aborted"}

\* somebody pushes a revision that adds, changes or removes one file
Commit ==
    /\ RunEnded
    /\ Len(upstream) < MaxRevisions
    /\ \E p \in Paths, b \in Blobs \cup {Absent} :
          /\ b # upstream[Len(upstream)][p]
          /\ upstream' = Append(upstream,
                                [upstream[Len(upstream)] EXCEPT ![p] = b])
    /\ UNCHANGED <<local, commit_collection, filehash_collection,
                   chunk_collection, run, audit>>

\* lines 171-185: clone or pull, read the markers, stop when nothing is new
StartRun ==
    /\ RunEnded
    /\ run.n < MaxRuns
    /\ LET curr == Len(upstream)
           commit_ids == Ids(commit_collection)
           last == IF commit_ids # <<>> THEN commit_ids[1] ELSE 0
       IN /\ local' = curr
          /\ run' = [IdleRun EXCEPT
                       !.pc = IF curr = last THEN "noop" ELSE "record",
                       !.n = run.n + 1, !.curr = curr, !.last = last,
                       !.prev = run.curr, !.prevPc = run.pc,
                       !.prevAbortedAt = run.abortedAt]
          /\ audit' = [audit EXCEPT
                         !.ingested = IF run.pc = "done"
                                      THEN @ \cup {run.curr} ELSE @]
    /\ UNCHANGED <<upstream, commit_collection, filehash_collection,
                   chunk_collection>>

\* lines 186-192: the new marker goes into the revision history
RecordCommit ==
    /\ run.pc = "record"
    /\ LET recs == << [id |-> run.curr, embedding |-> Embed(run.curr),
                       document |-> <<"Commit: ", run.curr>>,
                       metadata |-> [commit |-> run.curr]] >>
       IN /\ commit_collection' = Add(commit_collection, recs)
          /\ run' = [run EXCEPT
                       !.pc = "list", !.adds = @ + 1,
                       !.calls = Append(@, AddCall("commit", recs, "", 0))]
    /\ audit' = [audit EXCEPT !.marker = run.curr]
    /\ UNCHANGED <<upstream, local, filehash_collection, chunk_collection>>

\* lines 194-208: everything on a first run, the diff otherwise
ListChanged ==
    /\ run.pc = "list"
    /\ LET changed == IF run.last = 0
                      THEN WalkJson(local)
                      ELSE get_changed_files(run.last, run.curr)
       IN run' = [run EXCEPT !.changed = changed,
                             !.pc = IF changed # <<>> THEN "process"
                                    ELSE "done"]
    /\ UNCHANGED <<upstream, local, commit_collection, filehash_collection,
                   chunk_collection, audit>>

\* the digests computed by this pass over the changed paths
Digests(tree, changed) ==
    LET read == {changed[i] : i \in 1..Len(changed)} IN
    [p \in {q \in read : HashFileOk(tree[q])} |-> hash_file(tree[p])]

\* f @@ g of TLC, written out: g extended and overridden by f
Override(f, g) ==
    [x \in DOMAIN f \cup DOMAIN g |-> IF x \in DOMAIN f THEN f[x] ELSE g[x]]

\* lines 103-134 of process_changed_docs: the pass over the changed paths
ProcessDocs ==
    /\ run.pc = "process"
    /\ LET tree == upstream[local]
           fh == HashRecords(tree, run.changed)
           docs == DocsToEmbed(tree, run.changed)
       IN /\ run' = [run EXCEPT
                       !.fh = fh, !.docs = docs, !.start = 0, !.di = 1,
                       !.processed = Len(run.changed),
                       !.pc = IF fh # <<>> THEN "hashes"
                              ELSE IF docs # <<>> THEN "chunks" ELSE "done"]
          /\ audit' = [audit EXCEPT
                         !.digest = Override(Digests(tree, run.changed), @)]
    /\ UNCHANGED <<upstream, local, commit_collection, filehash_collection,
                   chunk_collection>>

\* lines 137-147: one batch of hash records
UpsertHashBatch ==
    /\ run.pc = "hashes"
    /\ LET max_batch == MaxBatch
           end == Min(run.start + max_batch, Len(run.fh))
       IN /\ filehash_collection' =
                Add(filehash_collection, SubSeq(run.fh, run.start + 1, end))
          /\ run' = [run EXCEPT
                       !.start = run.start + max_batch,
                       !.adds = @ + 1,
                       !.calls = Append(@,
                           AddCall("hash",
                                   SubSeq(run.fh, run.start + 1, end),
                                   "", 0)),
                       !.pc = IF run.start + max_batch < Len(run.fh)
                              THEN "hashes"
                              ELSE IF run.docs # <<>> THEN "chunks"
                              ELSE "done"]
    /\ UNCHANGED <<upstream, local, commit_collection, chunk_collection,
                   audit>>

\* the texts produced for the chunk ids of one document
ChunkTexts(recs) ==
    [id \in {recs[k].id : k \in 1..Len(recs)} |->
        (CHOOSE rec \in {recs[k] : k \in 1..Len(recs)} : rec.id = id).document]

\* lines 150-167: chunk, embed and store one document
EmbedDoc ==
    /\ run.pc = "chunks"
    /\ LET doc == run.docs[run.di]
           recs == ChunkRecords(doc)
       IN /\ chunk_collection' = Add(chunk_collection, recs)
          /\ audit' = [audit EXCEPT !.chunk = Override(ChunkTexts(recs), @)]
          /\ run' = [run EXCEPT
                       !.di = @ + 1, !.adds = @ + 1,
                       !.calls = Append(@, AddCall("chunk", recs, doc.id,
                                                   doc.ntok)),
                       !.pc = IF run.di < Len(run.docs) THEN "chunks"
                              ELSE "done"]
    /\ UNCHANGED <<upstream, local, commit_collection, filehash_collection>>

\* a call to the store raises (lines 187, 142, 162): nothing catches it
StoreFails ==
    /\ run.pc \in {"record", "hashes", "chunks"}
    /\ run' = [run EXCEPT !.pc = "aborted", !.abortedAt = run.pc]
    /\ audit' = [audit EXCEPT !.aborted = TRUE]
    /\ UNCHANGED <<upstream, local, commit_collection, filehash_collection,
                   chunk_collection>>

NextIngest ==
    \/ Commit /\ UNCHANGED <<askVars, chunker>>
    \/ StartRun /\ UNCHANGED <<askVars, chunker>>
    \/ RecordCommit /\ UNCHANGED <<askVars, chunker>>
    \/ ListChanged /\ UNCHANGED <<askVars, chunker>>
    \/ ProcessDocs /\ UNCHANGED <<askVars, chunker>>
    \/ UpsertHashBatch /\ UNCHANGED <<askVars, chunker>>
    \/ EmbedDoc /\ UNCHANGED <<askVars, chunker>>
    \/ StoreFails /\ UNCHANGED <<askVars, chunker>>

(* ------------------- the chunker on its own, lines 153-155 ------------- *)
ChunkerIdle ==
    [pc |-> "idle", ntok |-> 0, size |-> 0, overlap |-> 0, chunks |-> <<>>,
     raised |-> FALSE]

\* a document of ntok tokens under a configuration (size, overlap)
ChunkerInputs ==
    { [ChunkerIdle EXCEPT !.pc = "ready", !.ntok = n, !.size = c,
                          !.overlap = o] :
        n \in 0..MaxTokens, c \in 1..MaxChunkSize, o \in 0..MaxOverlap }

\* step = CHUNK_SIZE - CHUNK_OVERLAP; range(0, len(tokens), step) raises
\* ValueError when step is 0 and is empty when step is negative
Chunk ==
    /\ chunker.pc = "ready"
    /\ LET step == chunker.size - chunker.overlap IN
         IF step = 0
         THEN chunker' = [chunker EXCEPT !.pc = "done", !.raised = TRUE]
         ELSE chunker' = [chunker EXCEPT
                            !.pc = "done",
                            !.chunks = ChunkWindows(chunker.ntok, chunker.size,
                                                    chunker.overlap)]
    /\ UNCHANGED <<askVars, ingestVars>>

NextChunk == Chunk

Init == InitAsk /\ InitIngest /\ chunker = ChunkerIdle
InitChunk == InitAsk /\ InitIngest /\ chunker \in ChunkerInputs

SpecAsk == Init /\ [][NextAsk]_vars
SpecIngest == Init /\ [][NextIngest]_vars
SpecChunk == InitChunk /\ [][NextChunk]_vars

(* ------------------------ properties of /ask --------------------------- *)
Terminal(r) == req[r].pc \in {"done", "failed"}

SameParams(a, b) ==
    /\ a.query = b.query
    /\ a.top_k = b.top_k
    /\ a.model_id = b.model_id
    /\ a.response_type = b.response_type

\* the answer text a response carries
AnswerText(resp) == IF resp.kind = "plain" THEN resp.text ELSE resp.answer

\* the request took the cache-hit branch of line 155
Hit(r) == req[r].seen = "live" /\ req[r].hitBy # 0

\* the request missed the cache and retrieval returned zero chunks
CannedPath(r) ==
    /\ req[r].pc = "done"
    /\ ~Hit(r)
    /\ req[r].searches = 1
    /\ req[r].results = <<>>

\* the response mode a cache key ends with
IsAnswerOnlyKey(k) ==
    /\ Len(k) > Len(ANSWER_ONLY)
    /\ SubSeq(k, Len(k) - Len(ANSWER_ONLY), Len(k)) = <<"|">> \o ANSWER_ONLY

\* C1: a call that finds the entry an identical earlier call wrote, within the
\* entry's TTL, succeeds with the answer text the earlier call returned and,
\* in full mode, with cached = true; a call that finds the entry expired is
\* not served from it and runs retrieval again.
C1_RepeatWithinTtlIsServedFromCache ==
    \A r \in Requests :
        /\ (Terminal(r) /\ Hit(r) /\ SameParams(req[r], req[req[r].hitBy]))
              => /\ req[r].pc = "done"
                 /\ req[r].resp.status = 200
                 /\ AnswerText(req[r].resp)
                        = AnswerText(req[req[r].hitBy].resp)
                 /\ (req[r].response_type # ANSWER_ONLY
                        => req[r].resp.cached = TRUE)
        /\ req[r].seen = "expired"
              => /\ req[r].hitBy = 0
                 /\ (req[r].pc \in {"write_canned", "generate", "write_cache",
                                    "done"} => req[r].searches = 1)

\* C2: every value in the cache is well-formed for the response mode its key
\* ends with (plain text under an answer_only key, a serialized structured
\* payload under any other key), and no cache hit fails while decoding.
C2_CachedValueMatchesKeyMode ==
    /\ \A k \in DOMAIN cache :
          IF IsAnswerOnlyKey(k)
          THEN cache[k].val.kind = "plain"
          ELSE cache[k].val.kind = "json"
    /\ \A r \in Requests : req[r].failKind # "decode"

\* C3: a request that misses the cache and retrieves zero chunks returns the
\* canned answer (no sources, cached = false in full mode), has written the
\* cache exactly once, under its own key with CACHE_TTL, the TTL of every
\* other write, and has never called the generation service.
C3_EmptyRetrievalIsCannedAndCached ==
    /\ \A r \in Requests :
          CannedPath(r) =>
            /\ req[r].resp =
                  IF req[r].response_type = ANSWER_ONLY
                  THEN PlainTextResponse(NO_DOCS_TEXT)
                  ELSE JsonResponse([answer |-> NO_DOCS, sources |-> <<>>,
                                     cached |-> FALSE])
            /\ Len(req[r].wrote) = 1
            /\ req[r].wrote[1].key = req[r].cache_key
            /\ req[r].wrote[1].val = PlainText(NO_DOCS_TEXT)
            /\ req[r].genCalls = 0
    /\ \A r \in Requests :
          \A i \in 1..Len(req[r].wrote) : req[r].wrote[i].ttl = CACHE_TTL

C3_Witness ==
    \E r \in Requests :
        /\ CannedPath(r)
        /\ req[r].response_type # ANSWER_ONLY
        /\ Lookup(req[r].cache_key) = "live"

\* C4: a request that finds a live entry performs no retrieval, no generation
\* call and no cache write, and its response is marked as served from cache.
C4_HitSkipsEverythingAndIsMarked ==
    \A r \in Requests :
        (Terminal(r) /\ Hit(r)) =>
            /\ req[r].searches = 0
            /\ req[r].genCalls = 0
            /\ req[r].wrote = <<>>
            /\ req[r].pc = "done"
            /\ (req[r].response_type # ANSWER_ONLY
                   => req[r].resp.cached = TRUE)

\* C5: a request that ended in failure has written nothing to the cache, and
\* after a failure of the retrieval step it has not called the generation
\* service either.
C5_FailedRequestWroteNothing ==
    \A r \in Requests :
        req[r].pc = "failed" =>
            /\ req[r].wrote = <<>>
            /\ \A k \in DOMAIN cache : cache[k].by # r
            /\ (req[r].failKind \in {"retrieval", "client"}
                   => req[r].genCalls = 0)

C5_Witness ==
    \E r, o \in Requests :
        /\ req[r].pc = "failed" /\ req[r].failKind = "generation"
        /\ req[o].pc = "failed" /\ req[o].failKind = "retrieval"

C7_CacheKeyInjective ==
    \A r, o \in Requests :
        (req[r].pc # "idle" /\ req[o].pc # "idle"
            /\ ~SameParams(req[r], req[o]))
          => req[r].cache_key # req[o].cache_key

(* ---------------------- properties of ingestion ------------------------ *)
\* the records a collection holds under an id
RecordsOf(coll, id) == {i \in 1..Len(coll) : coll[i].id = id}

\* C8: (no run having been aborted) the marker a run compares against is the
\* one the most recent earlier run recorded, and a run at the revision the
\* preceding run ingested (or found already ingested) is a no-op: no
\* document processed, no write.
C8_RepeatedRevisionIsNoOp ==
    /\ (run.pc \in {"noop", "record"} /\ ~audit.aborted)
          => run.last = audit.marker
    /\ (run.pc # "idle" /\ run.prevPc \in {"done", "noop"}
            /\ run.curr = run.prev /\ ~audit.aborted)
          => /\ run.pc = "noop"
             /\ run.processed = 0
             /\ run.adds = 0

\* C9: the chunk index holds at most one record per chunk id, and every chunk
\* id a processed document produced holds the text produced the last time.
C9_ChunkWritesOverwriteById ==
    /\ \A id \in IdSet(chunk_collection) :
          Cardinality(RecordsOf(chunk_collection, id)) = 1
    /\ \A id \in DOMAIN audit.chunk :
          \E i \in RecordsOf(chunk_collection, id) :
              chunk_collection[i].document = audit.chunk[id]

\* C10: after a completed run (no run having been aborted), every path that
\* was processed has exactly one hash record, holding the digest of the
\* bytes read the last time the path was processed.
C10_HashRecordIsLatestDigest ==
    (run.pc = "done" /\ ~audit.aborted) =>
        \A p \in DOMAIN audit.digest :
            /\ Cardinality(RecordsOf(filehash_collection, p)) = 1
            /\ \A i \in RecordsOf(filehash_collection, p) :
                  filehash_collection[i].metadata.hash = audit.digest[p]

(* ---------------------- properties of the chunker ---------------------- *)
WindowLen(w) == w.hi - w.lo

\* the chunker has run on a non-empty document under a valid configuration
ChunkedValid ==
    /\ chunker.pc = "done"
    /\ chunker.ntok >= 1
    /\ chunker.overlap < chunker.size

\* C12: under 0 <= overlap < chunkSize every window but the last has exactly
\* chunkSize tokens and the last has between 1 and chunkSize tokens.
C12_AllButLastWindowFull ==
    ChunkedValid =>
        /\ ~chunker.raised
        /\ Len(chunker.chunks) >= 1
        /\ \A k \in 1..(Len(chunker.chunks) - 1) :
              WindowLen(chunker.chunks[k]) = chunker.size
        /\ WindowLen(chunker.chunks[Len(chunker.chunks)]) \in 1..chunker.size

\* C13: under 0 <= overlap < chunkSize consecutive windows share exactly
\* overlap tokens: the later window starts overlap tokens before the end of
\* the earlier one and holds at least those tokens.
C13_ConsecutiveWindowsShareOverlap ==
    ChunkedValid =>
        \A k \in 1..(Len(chunker.chunks) - 1) :
            /\ chunker.chunks[k].hi - chunker.chunks[k + 1].lo
                  = chunker.overlap
            /\ WindowLen(chunker.chunks[k + 1]) >= chunker.overlap

\* C16: with overlap >= chunkSize chunking a non-empty document ends in an
\* error at once and never returns a chunk list; with overlap = 0 it chunks.
C16_DegenerateConfigFailsFast ==
    (chunker.pc = "done" /\ chunker.ntok >= 1) =>
        /\ chunker.overlap >= chunker.size => chunker.raised
        /\ chunker.overlap = 0
              => (~chunker.raised /\ Len(chunker.chunks) >= 1)

(* ------------------ properties of ingestion, continued ----------------- *)
\* the file at a changed path cannot be read, is not JSON or is not an object
BadDoc(blob) == blob.kind \in {"unreadable", "invalid", "array"}

\* the file is a JSON object whose assembled text is not empty
GoodDoc(blob) == blob.kind = "object" /\ blob.text # ""

\* the calls of add on a collection the run has issued so far
CallsOn(coll) == {i \in 1..Len(run.calls) : run.calls[i].coll = coll}

\* the positions of the changed list that hold a document of some kind
Positions(Kind(_)) ==
    {i \in 1..Len(run.changed) : Kind(upstream[local][run.changed[i]])}

\* the token windows a document of ntok tokens has under the constants
WindowCount(ntok) == Len(ChunkWindows(ntok, CHUNK_SIZE, CHUNK_OVERLAP))

C14_SmallDocumentIsOneChunk ==
    \A c \in CallsOn("chunk") :
        run.calls[c].ntok \in 1..CHUNK_SIZE
            => run.calls[c].ids = <<ChunkId(run.calls[c].doc, 0)>>

\* C15: every write call of a run carries at most MaxBatch records, and once
\* the hash records are written the hash batches together are the collected
\* hash records, each once, in order.
RECURSIVE Concat(_)
Concat(seqs) == IF seqs = <<>> THEN <<>> ELSE Head(seqs) \o Concat(Tail(seqs))

HashBatches ==
    LET IsHash(call) == call.coll = "hash"
        hs == SelectSeq(run.calls, IsHash)
    IN Concat([i \in 1..Len(hs) |-> hs[i].ids])

C15_EveryWriteWithinBatchSize ==
    /\ \A c \in 1..Len(run.calls) : Len(run.calls[c].ids) <= MaxBatch
    /\ run.pc \in {"chunks", "done"} => HashBatches = Ids(run.fh)

\* C17: on a run without a previous marker the paths handed to processing
\* are exactly the files of the working directory that the incremental rule
\* (the path ends with '.json') accepts.
C17_ColdStartUsesDiffEligibility ==
    (run.last = 0 /\ run.pc \in {"process", "hashes", "chunks", "done"}) =>
        {run.changed[i] : i \in 1..Len(run.changed)}
            = {p \in Paths : upstream[local][p] # Absent /\ EndsWithJson(p)}

\* the revisions whose run went through to the end, the present one included
Ingested ==
    audit.ingested \cup (IF run.pc = "done" THEN {run.curr} ELSE {})

\* C19: when a run that detected a new revision is aborted during the hash
\* or chunk writes, the marker of that revision is not in the revision
\* history, and the next run at that revision is not a no-op.
C19_AbortLeavesNoMarker ==
    /\ (run.pc = "aborted" /\ run.abortedAt \in {"hashes", "chunks"}
            /\ run.curr \notin Ingested)
          => run.curr \notin IdSet(commit_collection)
    /\ (run.pc # "idle" /\ run.prevPc = "aborted"
            /\ run.prevAbortedAt \in {"hashes", "chunks"}
            /\ run.curr = run.prev /\ run.curr \notin Ingested)
          => run.pc # "noop"

(* -------------------- properties of /ask, continued -------------------- *)
\* two requests with one cache key that both looked the key up before any
\* entry was written under it, and both retrieved chunks
BothMissed(r, o) ==
    /\ r # o
    /\ req[r].cache_key = req[o].cache_key
    /\ req[r].seen = "absent" /\ req[o].seen = "absent"
    /\ req[r].results # <<>> /\ req[o].results # <<>>

\* the request has gone through retrieval, generation and the cache write
RanInFull(r) ==
    /\ req[r].searches = 1
    /\ req[r].genCalls = 1
    /\ Len(req[r].wrote) = 1

\* a step in which request r writes the cache leaves r's value under the key
WriteWins(r) ==
    Len(req'[r].wrote) > Len(req[r].wrote) =>
        LET w == req'[r].wrote[Len(req'[r].wrote)] IN
        /\ w.key \in DOMAIN cache'
        /\ cache'[w.key] = [val |-> w.val, ttl |-> w.ttl, by |-> r]

\* C18: two requests with one signature that both miss before either writes
\* both run retrieval, generation and the cache write (nothing makes one
\* wait for the other), and every write replaces the entry, so the entry
\* left is the one written last.
C18_NoSingleFlight ==
    [][ /\ \A r \in Requests : WriteWins(r)
        /\ \A r, o \in Requests :
              (BothMissed(r, o)' /\ req'[r].pc = "done" /\ req'[o].pc = "done")
                 => (RanInFull(r)' /\ RanInFull(o)'
                     /\ cache'[req'[r].cache_key].by \in Requests) ]_vars

C18_Witness ==
    \E r, o \in Requests :
        /\ BothMissed(r, o)
        /\ req[r].pc = "done" /\ req[o].pc = "done"
        /\ RanInFull(r) /\ RanInFull(o)
        /\ cache[req[r].cache_key].by = o
        /\ cache[req[r].cache_key].ttl = CACHE_TTL
        /\ req[r].wrote[1].val # req[o].wrote[1].val

====
